---- MODULE Spec2Model ----
(***************************************************************************)
(* State-machine model of fastfold/model/nn/embedders.py:                  *)
(*   - TemplateEmbedder.forward, one step per statement group, under Spec  *)
(*   - InputEmbedder.relpos / InputEmbedder.forward, under SpecInput       *)
(* Tensors are abstracted to integer payloads carrying a device and a      *)
(* dtype tag; the template axis of a tensor is a sequence.                 *)
(***************************************************************************)
EXTENDS Integers, Sequences, FiniteSets, TLC

VARIABLES
    \* ---- TemplateEmbedder.forward: arguments and configuration
    batch,                  \* batch, one record per entry of the template axis
    z,                      \* pair embedding (argument), [val, dev, dtype]
    pair_mask,              \* pair_mask (argument)
    chunk_size,             \* chunk_size (argument), a tagged Python value
    mask_trans,             \* _mask_trans (argument)
    inplace,                \* inplace (argument)
    embed_angles,           \* self.config.embed_angles
    \* ---- TemplateEmbedder.forward: locals
    pc,                     \* position in forward
    n_templ,                \* n_templ
    t,                      \* accumulation buffer t
    i,                      \* loop index i
    template_embeds,        \* template_embeds (list of dicts, then a dict)
    single_template_feats,  \* single_template_feats, <<>> while unbound
    single_template_embeds, \* single_template_embeds
    tt,                     \* tt
    tt_bound,               \* whether the local name tt is bound
    ret,                    \* ret
    z_out,                  \* the second element of the returned pair
    exc,                    \* the exception that ended the call, "" if none
    \* ---- collaborators' call logs
    angle_calls,            \* inputs of template_angle_embedder, in call order
    pair_feat_calls,        \* chunk arguments of build_template_pair_feat
    pair_stack_calls,       \* call records of template_pair_stack
    att_calls,              \* call records of template_pointwise_att
    \* ---- InputEmbedder
    relpos_k,               \* self.relpos_k
    tf,                     \* tf (argument): per-residue target features
    ri,                     \* ri (argument): residue_index
    ipc,                    \* which InputEmbedder operation has run
    arg_c,                  \* the constant added to ri (translation)
    arg_p,                  \* the permutation applied to the residue order
    oh_out,                 \* the one-hot tensor relpos built
    out_a,                  \* result on the original inputs
    out_b                   \* result on the transformed inputs

tvars == <<batch, z, pair_mask, chunk_size, mask_trans, inplace, embed_angles,
           pc, n_templ, t, i, template_embeds, single_template_feats,
           single_template_embeds, tt, tt_bound, ret, z_out, exc,
           angle_calls, pair_feat_calls, pair_stack_calls, att_calls>>

ivars == <<relpos_k, tf, ri, ipc, arg_c, arg_p, oh_out, out_a, out_b>>

vars == <<tvars, ivars>>

----------------------------------------------------------------------------
(* Bounds of the model *)

MaxTempl == 2      \* template axis lengths 0..MaxTempl
MaxChunk == 5      \* integer chunk sizes -1..MaxChunk (16 is added)
MaxRes == 3        \* residue counts 1..MaxRes
MaxIdx == 2        \* residue indices 0..MaxIdx
MaxK == 2          \* relpos_k in 1..MaxK
MaxShift == 2      \* translation constants -MaxShift..MaxShift

(* Program constants *)

HostChunkMax == 4        \* 1 <= chunk_size <= 4
TemplateChannels == 64   \* last dimension of the buffer t
AttChunkScale == 256     \* chunk_size * 256

----------------------------------------------------------------------------
(* Python values of chunk_size.  v is the value for int and bool (True = 1) *)
(* and twice the value for float, so 2.5 is FloatC(5).                      *)

NoneC == [kind |-> "none", v |-> 0]
IntC(n) == [kind |-> "int", v |-> n]
FloatC(h) == [kind |-> "float", v |-> h]
BoolC(b) == [kind |-> "bool", v |-> IF b THEN 1 ELSE 0]

ChunkSizes ==
    {NoneC} \cup {IntC(n) : n \in (-1..MaxChunk) \cup {16}}
            \cup {FloatC(4), FloatC(5)} \cup {BoolC(TRUE), BoolC(FALSE)}

\* isinstance(chunk_size, int): bool is a subclass of int
isinstance_int(cs) == cs.kind \in {"int", "bool"}

\* twice the numeric value of a chunk size that is not None
Twice(cs) == IF cs.kind = "float" THEN cs.v ELSE 2 * cs.v

\* chunk_size * n in Python: int*int and bool*int are int, float*int is float
PyMul(cs, n) ==
    IF cs.kind = "float" THEN FloatC(cs.v * n) ELSE IntC(cs.v * n)

----------------------------------------------------------------------------
(* Tensors *)

Tensor(v, dev, dtype) == [val |-> v, dev |-> dev, dtype |-> dtype]
NoTensor == Tensor(0, "unbound", "unbound")
Devices == {"cpu", "cuda:0"}
Dtypes == {"float32", "bfloat16"}

\* x.to(device)
ToDevice(x, dev) == [x EXCEPT !.dev = dev]
\* x.to(dtype)
ToDtype(x, dtype) == [x EXCEPT !.dtype = dtype]

\* a slice of torch.empty: its contents are not defined until written
Uninit == [init |-> FALSE, val |-> 0]
Written(v) == [init |-> TRUE, val |-> v]

RECURSIVE SumTo(_, _)
SumTo(f, n) == IF n = 0 THEN 0 ELSE f[n] + SumTo(f, n - 1)

Max(a, b) == IF a >= b THEN a ELSE b

----------------------------------------------------------------------------
(* Collaborators of TemplateEmbedder (fastfold.utils.feats,                 *)
(* fastfold.model.nn.template, fastfold.model.nn.primitives), as            *)
(* deterministic functions of their tensor arguments.  Their chunk          *)
(* arguments select how they subdivide their own work and do not enter the  *)
(* value they return.                                                       *)

\* Linear: weight * x + bias on the scalar payload
Linear(w, b, x) == w * x + b

\* build_template_angle_feat(single_template_feats)
build_template_angle_feat(feats) == 2 * feats[1].aatype + feats[1].mask - 2

\* build_template_pair_feat(single_template_feats, ..., chunk=chunk_size, ...)
build_template_pair_feat(feats, chunk) ==
    Tensor(3 * feats[1].aatype + feats[1].mask, "cpu", "float32")

\* the value the pair stack computes from one pair map
PairStackValue(v, mask, mt) == 4 * v + 2 * mask.val + (IF mt THEN 1 ELSE 0)

\* TemplatePairStack.forward(t, mask, chunk_size, _mask_trans) -> tensor, and
\* TemplatePairStack.inplace(t, ...) -> the mutated input sequence
PairStackApply(call) ==
    LET x == IF call.wrapped THEN call.feat[1] ELSE call.feat
        r == [x EXCEPT !.val = PairStackValue(x.val, call.mask, call.mask_trans)]
    IN  IF call.mode = "inplace" THEN <<r>> ELSE r

\* TemplatePointwiseAttention(t, z, template_mask, chunk_size): pooling over
\* the template axis, weighted by position and by the validity mask
PointwiseAttValue(slices, zz, tmask) ==
    zz.val + SumTo([j \in 1..Len(slices) |-> j * tmask[j] * slices[j].val],
                   Len(slices))

----------------------------------------------------------------------------
(* TemplateAngleEmbedder.forward and TemplatePairEmbedder.forward *)

relu(x) == Max(x, 0)

\* x = self.linear_1(x); x = self.relu(x); x = self.linear_2(x)
TemplateAngleEmbedder_forward(x) == Linear(3, 1, relu(Linear(2, -1, x)))

\* x = self.linear(x)
TemplatePairEmbedder_forward(x) == [x EXCEPT !.val = Linear(5, 2, x.val)]

----------------------------------------------------------------------------
(* tensor_utils helpers used by TemplateEmbedder.forward *)

\* tensor_tree_map(lambda t: torch.index_select(t, templ_dim, idx), batch):
\* every field keeps its template axis, now of length one
IndexSelectTree(b, idx) == <<b[idx + 1]>>

RECURSIVE Cat(_)
\* torch.cat(list, dim=templ_dim)
Cat(list) == IF Len(list) = 0 THEN <<>> ELSE Head(list) \o Cat(Tail(list))

\* dict_multimap(partial(torch.cat, dim=templ_dim), dicts): the keys of the
\* first dict, each mapped to the concatenation over all dicts
dict_multimap_cat(dicts) ==
    [key \in DOMAIN dicts[1] |-> Cat([j \in 1..Len(dicts) |-> dicts[j][key]])]

EmptyDict == [key \in {} |-> <<>>]

----------------------------------------------------------------------------
(* TemplateEmbedder.forward *)

\* isinstance(chunk_size, int) and 1 <= chunk_size <= 4
UseHostBuffer_Below4(cs) == isinstance_int(cs) /\ 1 <= cs.v /\ cs.v < HostChunkMax
UseHostBuffer(cs) == isinstance_int(cs) /\ 1 <= cs.v /\ cs.v <= HostChunkMax

\* torch.empty((n_templ, z.shape[0], z.shape[1], 64), dtype=z.dtype, device=...)
AllocBuffer_ChunkSlices(n, cs, zz) ==
    [dev |-> IF UseHostBuffer(cs) THEN "cpu" ELSE zz.dev,
     dtype |-> zz.dtype,
     channels |-> TemplateChannels,
     slices |-> [j \in 1..(IF UseHostBuffer(cs) THEN cs.v ELSE n) |-> Uninit]]
AllocBuffer(n, cs, zz) ==
    [dev |-> IF UseHostBuffer(cs) THEN "cpu" ELSE zz.dev,
     dtype |-> zz.dtype,
     channels |-> TemplateChannels,
     slices |-> [j \in 1..n |-> Uninit]]

\* pair_mask.unsqueeze(-3).to(dtype=z.dtype)
MaskArg(pm, zz) == [val |-> pm, unsqueezed |-> TRUE, dtype |-> zz.dtype]

\* self.template_pair_stack(tt, mask, chunk_size=chunk_size, _mask_trans=_mask_trans)
PairStackStandardArgs(x, mask, cs, mt) ==
    [mode |-> "forward", wrapped |-> FALSE, feat |-> x, mask |-> mask,
     chunk |-> cs, mask_trans |-> mt]

\* tt = [tt]; self.template_pair_stack.inplace(tt, mask, chunk_size=..., _mask_trans=...)
PairStackInplaceArgs_DefaultFlag(x, mask, cs, mt) ==
    [mode |-> "inplace", wrapped |-> TRUE, feat |-> <<x>>, mask |-> mask,
     chunk |-> cs, mask_trans |-> TRUE]
PairStackInplaceArgs(x, mask, cs, mt) ==
    [mode |-> "inplace", wrapped |-> TRUE, feat |-> <<x>>, mask |-> mask,
     chunk |-> cs, mask_trans |-> mt]

\* chunk_size * 256 if chunk_size is not None else chunk_size
AttChunk_Unscaled(cs) == cs
AttChunk(cs) == IF cs.kind # "none" THEN PyMul(cs, AttChunkScale) ELSE cs

\* template_aatype payloads and template_mask entries of one template
Templates == [aatype : {1, 2}, mask : 0..1]

RECURSIVE SeqsUpTo(_, _)
SeqsUpTo(S, n) ==
    IF n = 0 THEN {<<>>}
    ELSE LET shorter == SeqsUpTo(S, n - 1)
         IN  shorter \cup {Append(s, x) : s \in {q \in shorter : Len(q) = n - 1}, x \in S}

TInit ==
    /\ batch \in SeqsUpTo(Templates, MaxTempl)
    /\ z \in {Tensor(1, dev, dtype) : dev \in Devices, dtype \in Dtypes}
    /\ pair_mask \in 0..1
    /\ chunk_size \in ChunkSizes
    /\ mask_trans \in BOOLEAN
    /\ inplace \in BOOLEAN
    /\ embed_angles \in BOOLEAN
    /\ pc = "entry"
    /\ n_templ = 0
    /\ t = [dev |-> "unbound", dtype |-> "unbound", channels |-> 0, slices |-> <<>>]
    /\ i = 0
    /\ template_embeds = <<>>
    /\ single_template_feats = <<>>
    /\ single_template_embeds = EmptyDict
    /\ tt = NoTensor
    /\ tt_bound = FALSE
    /\ ret = EmptyDict
    /\ z_out = NoTensor
    /\ exc = ""
    /\ angle_calls = <<>>
    /\ pair_feat_calls = <<>>
    /\ pair_stack_calls = <<>>
    /\ att_calls = <<>>

IIdle ==
    /\ relpos_k = 0
    /\ tf = <<>>
    /\ ri = <<>>
    /\ ipc = "idle"
    /\ arg_c = 0
    /\ arg_p = <<>>
    /\ oh_out = <<>>
    /\ out_a = <<>>
    /\ out_b = <<>>

Raise(name) ==
    /\ pc' = "raised"
    /\ exc' = name

\* template_embeds = []; n_templ = ...shape[templ_dim]; t = torch.empty(...)
Entry ==
    /\ pc = "entry"
    /\ template_embeds' = <<>>
    /\ n_templ' = Len(batch)
    /\ t' = AllocBuffer(Len(batch), chunk_size, z)
    /\ i' = 0
    /\ pc' = "loop"
    /\ UNCHANGED ivars
    /\ UNCHANGED <<batch, z, pair_mask, chunk_size, mask_trans, inplace,
                   embed_angles, single_template_feats, single_template_embeds,
                   tt, tt_bound, ret, z_out, exc, angle_calls, pair_feat_calls,
                   pair_stack_calls, att_calls>>

\* for i in range(n_templ): idx = ...; single_template_feats = tensor_tree_map(...)
LoopSelect ==
    /\ pc = "loop"
    /\ i < n_templ
    /\ single_template_feats' = IndexSelectTree(batch, i)
    /\ single_template_embeds' = EmptyDict
    /\ pc' = "angle"
    /\ UNCHANGED ivars
    /\ UNCHANGED <<batch, z, pair_mask, chunk_size, mask_trans, inplace,
                   embed_angles, n_templ, t, i, template_embeds, tt, tt_bound,
                   ret, z_out, exc, angle_calls, pair_feat_calls,
                   pair_stack_calls, att_calls>>

\* if self.config.embed_angles: ... single_template_embeds["angle"] = a
AngleStep ==
    /\ pc = "angle"
    /\ IF embed_angles
       THEN LET template_angle_feat == build_template_angle_feat(single_template_feats)
                a == <<TemplateAngleEmbedder_forward(template_angle_feat)>>
            IN  /\ single_template_embeds' = [key \in {"angle"} |-> a]
                /\ angle_calls' = Append(angle_calls, template_angle_feat)
       ELSE UNCHANGED <<single_template_embeds, angle_calls>>
    /\ pc' = "pair"
    /\ UNCHANGED ivars
    /\ UNCHANGED <<batch, z, pair_mask, chunk_size, mask_trans, inplace,
                   embed_angles, n_templ, t, i, template_embeds,
                   single_template_feats, tt, tt_bound, ret, z_out, exc,
                   pair_feat_calls, pair_stack_calls, att_calls>>

\* tt = build_template_pair_feat(...).to(z.dtype).to(z.device)
\* tt = self.template_pair_embedder(tt); template_embeds.append(...)
PairStep ==
    /\ pc = "pair"
    /\ tt' = TemplatePairEmbedder_forward(
                 ToDevice(ToDtype(build_template_pair_feat(single_template_feats,
                                                           chunk_size),
                                  z.dtype), z.dev))
    /\ tt_bound' = TRUE
    /\ pair_feat_calls' = Append(pair_feat_calls, chunk_size)
    /\ template_embeds' = Append(template_embeds, single_template_embeds)
    /\ pc' = "stack"
    /\ UNCHANGED ivars
    /\ UNCHANGED <<batch, z, pair_mask, chunk_size, mask_trans, inplace,
                   embed_angles, n_templ, t, i, single_template_feats,
                   single_template_embeds, ret, z_out, exc, angle_calls,
                   pair_stack_calls, att_calls>>

\* if inplace: tt = [tt]; t[i] = self.template_pair_stack.inplace(...)[0].to(t.device)
\* else:       t[i] = self.template_pair_stack(...).to(t.device)
StackStep ==
    /\ pc = "stack"
    /\ LET mask == MaskArg(pair_mask, z)
           call == IF inplace
                   THEN PairStackInplaceArgs(tt, mask, chunk_size, mask_trans)
                   ELSE PairStackStandardArgs(tt, mask, chunk_size, mask_trans)
           res == PairStackApply(call)
           moved == ToDevice(IF inplace THEN res[1] ELSE res, t.dev)
       IN  /\ pair_stack_calls' = Append(pair_stack_calls, call)
           /\ IF i + 1 \in DOMAIN t.slices
              THEN /\ t' = [t EXCEPT !.slices[i + 1] = Written(moved.val)]
                   /\ i' = i + 1
                   /\ pc' = "loop"
                   /\ exc' = exc
              ELSE /\ Raise("IndexError")
                   /\ UNCHANGED <<t, i>>
    /\ UNCHANGED ivars
    /\ UNCHANGED <<batch, z, pair_mask, chunk_size, mask_trans, inplace,
                   embed_angles, n_templ, template_embeds,
                   single_template_feats, single_template_embeds, tt, tt_bound,
                   ret, z_out, angle_calls, pair_feat_calls, att_calls>>

\* the loop is exhausted; del tt, single_template_feats
\* (del of a name that was never bound raises UnboundLocalError)
LoopExitDel ==
    /\ pc = "loop"
    /\ i >= n_templ
    /\ IF tt_bound
       THEN /\ tt' = NoTensor
            /\ tt_bound' = FALSE
            /\ single_template_feats' = <<>>
            /\ pc' = "multimap"
            /\ exc' = exc
       ELSE /\ Raise("UnboundLocalError")
            /\ UNCHANGED <<tt, tt_bound, single_template_feats>>
    /\ UNCHANGED ivars
    /\ UNCHANGED <<batch, z, pair_mask, chunk_size, mask_trans, inplace,
                   embed_angles, n_templ, t, i, template_embeds,
                   single_template_embeds, ret, z_out, angle_calls,
                   pair_feat_calls, pair_stack_calls, att_calls>>

\* template_embeds = dict_multimap(partial(torch.cat, dim=templ_dim), template_embeds)
Multimap ==
    /\ pc = "multimap"
    /\ IF Len(template_embeds) > 0
       THEN /\ template_embeds' = dict_multimap_cat(template_embeds)
            /\ pc' = "att"
            /\ exc' = exc
       ELSE /\ Raise("IndexError")
            /\ UNCHANGED template_embeds
    /\ UNCHANGED ivars
    /\ UNCHANGED <<batch, z, pair_mask, chunk_size, mask_trans, inplace,
                   embed_angles, n_templ, t, i, single_template_feats,
                   single_template_embeds, tt, tt_bound, ret, z_out,
                   angle_calls, pair_feat_calls, pair_stack_calls, att_calls>>

\* z = self.template_pointwise_att(t, z, template_mask=..., chunk_size=...)
\* A slice of t that was never written holds whatever torch.empty left there.
PointwiseAtt ==
    /\ pc = "att"
    /\ \E garbage \in 0..1 :
         LET tmask == [j \in 1..Len(batch) |-> batch[j].mask]
             read == [j \in 1..Len(t.slices) |->
                        IF t.slices[j].init THEN t.slices[j]
                        ELSE Written(garbage)]
         IN  /\ att_calls' = Append(att_calls,
                    [slices |-> t.slices, z |-> z, template_mask |-> tmask,
                     chunk |-> AttChunk(chunk_size)])
             /\ IF Len(read) = Len(tmask)
                THEN /\ z_out' = Tensor(PointwiseAttValue(read, z, tmask),
                                        z.dev, z.dtype)
                     /\ pc' = "ret"
                     /\ exc' = exc
                ELSE /\ Raise("RuntimeError")
                     /\ UNCHANGED z_out
    /\ UNCHANGED ivars
    /\ UNCHANGED <<batch, z, pair_mask, chunk_size, mask_trans, inplace,
                   embed_angles, n_templ, t, i, template_embeds,
                   single_template_feats, single_template_embeds, tt, tt_bound,
                   ret, angle_calls, pair_feat_calls, pair_stack_calls>>

\* ret = {}; if embed_angles: ret["template_single_embedding"] = ...; return ret, z
Return ==
    /\ pc = "ret"
    /\ IF embed_angles
       THEN IF "angle" \in DOMAIN template_embeds
            THEN /\ ret' = [key \in {"template_single_embedding"} |->
                              template_embeds["angle"]]
                 /\ pc' = "done"
                 /\ exc' = exc
            ELSE /\ Raise("KeyError")
                 /\ UNCHANGED ret
       ELSE /\ ret' = EmptyDict
            /\ pc' = "done"
            /\ exc' = exc
    /\ UNCHANGED ivars
    /\ UNCHANGED <<batch, z, pair_mask, chunk_size, mask_trans, inplace,
                   embed_angles, n_templ, t, i, template_embeds,
                   single_template_feats, single_template_embeds, tt, tt_bound,
                   z_out, angle_calls, pair_feat_calls, pair_stack_calls,
                   att_calls>>

Next ==
    \/ Entry
    \/ LoopSelect
    \/ AngleStep
    \/ PairStep
    \/ StackStep
    \/ LoopExitDel
    \/ Multimap
    \/ PointwiseAtt
    \/ Return

Init == TInit /\ IIdle
Spec == Init /\ [][Next]_vars

----------------------------------------------------------------------------
(* InputEmbedder *)

\* fastfold.utils.tensor_utils.one_hot(x, v_bins) on one offset: the bucket
\* of the largest boundary not exceeding x, offsets below the first boundary
\* falling into bucket 0; buckets are numbered from 0
BucketOf(x, v_bins) ==
    LET reached == {b \in 1..Len(v_bins) : v_bins[b] <= x}
    IN  IF reached = {} THEN 0
        ELSE (CHOOSE b \in reached : \A c \in reached : c <= b) - 1
one_hot(x, v_bins) ==
    LET bucket == BucketOf(x, v_bins)
    IN  [b \in 1..Len(v_bins) |-> IF b - 1 = bucket THEN 1 ELSE 0]

\* self.linear_relpos: one learned weight per bin, plus a bias
RelposWeight(b) == b * b + 1
linear_relpos(oh) ==
    SumTo([b \in 1..Len(oh) |-> RelposWeight(b) * oh[b]], Len(oh)) + 3

\* self.linear_tf_z_i, self.linear_tf_z_j, self.linear_tf_m, self.linear_msa_m
linear_tf_z_i(x) == Linear(7, 1, x)
linear_tf_z_j(x) == Linear(11, 2, x)
linear_tf_m(x) == Linear(2, 5, x)
linear_msa_m(x) == Linear(3, 0, x)

\* d = ri[..., None] - ri[..., None, :]
PairwiseOffsets_Sum(r) ==
    [a \in 1..Len(r) |-> [b \in 1..Len(r) |-> r[a] + r[b]]]
PairwiseOffsets(r) ==
    [a \in 1..Len(r) |-> [b \in 1..Len(r) |-> r[a] - r[b]]]

\* boundaries = torch.arange(start=-self.relpos_k, end=self.relpos_k + 1)
Boundaries_EndK(k) == [b \in 1..(2 * k) |-> b - 1 - k]
Boundaries(k) == [b \in 1..(2 * k + 1) |-> b - 1 - k]

\* oh = one_hot(d, boundaries).type(ri.dtype)
RelposOneHot(r, k) ==
    LET d == PairwiseOffsets(r)
        boundaries == Boundaries(k)
    IN  [a \in 1..Len(r) |-> [b \in 1..Len(r) |-> one_hot(d[a][b], boundaries)]]

\* return self.linear_relpos(oh)
relpos(r, k) ==
    LET oh == RelposOneHot(r, k)
    IN  [a \in 1..Len(r) |-> [b \in 1..Len(r) |-> linear_relpos(oh[a][b])]]

\* ri.type(tf_emb_i.dtype): an integer index as a float32, exact below 2^24
\* and rounded to an even integer just above it
TypeFloat(x) ==
    IF x <= 16777216 /\ x >= -16777216 THEN x ELSE 2 * (x \div 2)

\* x[..., None, :] and x[..., None, :, :] on a vector x of length N:
\* shapes [N, 1] and [1, N]
UnsqueezeCol(x) == [a \in 1..Len(x) |-> <<x[a]>>]
UnsqueezeRow(x) == <<x>>

\* elementwise + with broadcasting of axes of length one
BroadcastAdd(x, y) ==
    LET rows == Max(Len(x), Len(y))
        cols == Max(Len(x[1]), Len(y[1]))
        at(m, a, b) == m[IF Len(m) = 1 THEN 1 ELSE a][IF Len(m[1]) = 1 THEN 1 ELSE b]
    IN  [a \in 1..rows |-> [b \in 1..cols |-> at(x, a, b) + at(y, a, b)]]

\* tf_emb_i[..., None, :] + tf_emb_j[..., None, :, :]
OuterSum_Swapped(tf_emb_i, tf_emb_j) ==
    BroadcastAdd(UnsqueezeRow(tf_emb_i), UnsqueezeCol(tf_emb_j))
OuterSum(tf_emb_i, tf_emb_j) ==
    BroadcastAdd(UnsqueezeCol(tf_emb_i), UnsqueezeRow(tf_emb_j))

\* InputEmbedder.forward(tf, ri, msa) -> (msa_emb, pair_emb)
InputEmbedder_forward(tf_, ri_, msa, k) ==
    LET tf_emb_i == [a \in 1..Len(tf_) |-> linear_tf_z_i(tf_[a])]
        tf_emb_j == [a \in 1..Len(tf_) |-> linear_tf_z_j(tf_[a])]
        rel == relpos([a \in 1..Len(ri_) |-> TypeFloat(ri_[a])], k)
        pair_emb == BroadcastAdd(rel, OuterSum(tf_emb_i, tf_emb_j))
        tf_m == <<[a \in 1..Len(tf_) |-> linear_tf_m(tf_[a])]>>
        msa_lin == [c \in 1..Len(msa) |->
                      [a \in 1..Len(msa[c]) |-> linear_msa_m(msa[c][a])]]
        msa_emb == BroadcastAdd(msa_lin, tf_m)
    IN  [msa_emb |-> msa_emb, pair_emb |-> pair_emb]

\* the msa_feat argument: N_clust = 2 rows over the residues
MsaFor(n) == [c \in 1..2 |-> [a \in 1..n |-> c + a]]

ResidueIndexSeqs == UNION {[1..n -> 0..MaxIdx] : n \in 1..MaxRes}
\* residue indices in residue order, as the features of a chain carry them;
\* ForwardPermuted hands forward every reordering of them
OrderedResidueIndexSeqs ==
    {r \in ResidueIndexSeqs : \A a \in 1..(Len(r) - 1) : r[a] <= r[a + 1]}
TargetFeats(n) == [1..n -> {1, 2}]
Perms(n) == {p \in [1..n -> 1..n] : \A a, b \in 1..n : p[a] = p[b] => a = b}
Permute(x, p) == [a \in 1..Len(x) |-> x[p[a]]]

TIdle ==
    /\ batch = <<>>
    /\ z = NoTensor
    /\ pair_mask = 0
    /\ chunk_size = NoneC
    /\ mask_trans = TRUE
    /\ inplace = FALSE
    /\ embed_angles = FALSE
    /\ pc = "idle"
    /\ n_templ = 0
    /\ t = [dev |-> "unbound", dtype |-> "unbound", channels |-> 0, slices |-> <<>>]
    /\ i = 0
    /\ template_embeds = <<>>
    /\ single_template_feats = <<>>
    /\ single_template_embeds = EmptyDict
    /\ tt = NoTensor
    /\ tt_bound = FALSE
    /\ ret = EmptyDict
    /\ z_out = NoTensor
    /\ exc = ""
    /\ angle_calls = <<>>
    /\ pair_feat_calls = <<>>
    /\ pair_stack_calls = <<>>
    /\ att_calls = <<>>

IInit ==
    /\ relpos_k \in 1..MaxK
    /\ tf = <<>>
    /\ ri = <<>>
    /\ ipc = "idle"
    /\ arg_c = 0
    /\ arg_p = <<>>
    /\ oh_out = <<>>
    /\ out_a = <<>>
    /\ out_b = <<>>

\* relpos(ri)
RelposCall ==
    /\ ipc = "idle"
    /\ \E r \in ResidueIndexSeqs :
         /\ ri' = r
         /\ oh_out' = RelposOneHot(r, relpos_k)
         /\ out_a' = relpos(r, relpos_k)
    /\ ipc' = "relpos"
    /\ UNCHANGED <<relpos_k, tf, arg_c, arg_p, out_b>>
    /\ UNCHANGED tvars

\* relpos(ri) and relpos(ri + c)
RelposTranslated ==
    /\ ipc = "idle"
    /\ \E r \in ResidueIndexSeqs, c \in (-MaxShift)..MaxShift :
         /\ ri' = r
         /\ arg_c' = c
         /\ out_a' = relpos(r, relpos_k)
         /\ out_b' = relpos([a \in 1..Len(r) |-> r[a] + c], relpos_k)
    /\ ipc' = "translated"
    /\ UNCHANGED <<relpos_k, tf, arg_p, oh_out>>
    /\ UNCHANGED tvars

\* forward(tf, ri, msa)
ForwardCall ==
    /\ ipc = "idle"
    /\ \E r \in ResidueIndexSeqs :
         \E f \in TargetFeats(Len(r)) :
            /\ ri' = r
            /\ tf' = f
            /\ out_a' = InputEmbedder_forward(f, r, MsaFor(Len(r)), relpos_k)
    /\ ipc' = "forward"
    /\ UNCHANGED <<relpos_k, arg_c, arg_p, oh_out, out_b>>
    /\ UNCHANGED tvars

\* forward(tf, ri, msa) and forward on the residue order permuted by p
ForwardPermuted ==
    /\ ipc = "idle"
    /\ \E r \in OrderedResidueIndexSeqs :
         \E f \in TargetFeats(Len(r)), p \in Perms(Len(r)) :
            /\ ri' = r
            /\ tf' = f
            /\ arg_p' = p
            /\ out_a' = InputEmbedder_forward(f, r, MsaFor(Len(r)), relpos_k)
            /\ out_b' = InputEmbedder_forward(Permute(f, p), Permute(r, p),
                            [c \in 1..2 |-> Permute(MsaFor(Len(r))[c], p)],
                            relpos_k)
    /\ ipc' = "permuted"
    /\ UNCHANGED <<relpos_k, arg_c, oh_out>>
    /\ UNCHANGED tvars

NextInput ==
    \/ RelposCall
    \/ RelposTranslated
    \/ ForwardCall
    \/ ForwardPermuted

InitInput == TIdle /\ IInit
SpecInput == InitInput /\ [][NextInput]_vars

----------------------------------------------------------------------------
(* What TemplateEmbedder.forward is to compute, as functions of its        *)
(* arguments other than chunk_size and inplace.                            *)

Key == "template_single_embedding"

\* the embedded pair features of template j (1-based)
ExpectedFeat(j) ==
    Tensor(Linear(5, 2, 3 * batch[j].aatype + batch[j].mask), z.dev, z.dtype)

\* the mask handed to the pair stack
ExpectedMask == [val |-> pair_mask, unsqueezed |-> TRUE, dtype |-> z.dtype]

\* the pair-stack result of template j
ExpectedSlice(j) ==
    Written(PairStackValue(ExpectedFeat(j).val, ExpectedMask, mask_trans))

\* the angle embeddings of templates 1..Len(batch), in template order
ExpectedAngle ==
    [j \in 1..Len(batch) |->
        TemplateAngleEmbedder_forward(2 * batch[j].aatype + batch[j].mask - 2)]

\* the pooled update over all templates
ExpectedZ ==
    Tensor(PointwiseAttValue([j \in 1..Len(batch) |-> ExpectedSlice(j)], z,
                             [j \in 1..Len(batch) |-> batch[j].mask]),
           z.dev, z.dtype)

Terminated == pc \in {"done", "raised"}

\* the values forward returned are the expected ones
OutputsAsExpected ==
    /\ z_out = ExpectedZ
    /\ (Key \in DOMAIN ret) <=> embed_angles
    /\ Key \in DOMAIN ret => ret[Key] = ExpectedAngle

----------------------------------------------------------------------------
(* C1: forward with a template axis of length 0 completes without raising, *)
(* and with embed_angles its output holds an angle embedding whose         *)
(* template axis has length zero.                                          *)
C1_ZeroTemplatesCompletes ==
    Len(batch) = 0 =>
        /\ pc # "raised"
        /\ (pc = "done" /\ embed_angles) =>
              (Key \in DOMAIN ret /\ Len(ret[Key]) = 0)

\* the chunk sizes the comparison ranges over
C2_ChunkSizes == {NoneC, IntC(1), IntC(4), IntC(16)}
(* C2: for chunk_size in {None, 1, 4, 16} a call ends the same way and     *)
(* returns the same angle embedding and pair update: the outcome is a      *)
(* function of the other arguments alone (the only call that raises is the *)
(* one with an empty template axis, whatever chunk_size is).               *)
C2_ChunkIndependent ==
    chunk_size \in C2_ChunkSizes =>
        /\ pc = "done" => OutputsAsExpected
        /\ pc = "raised" => Len(batch) = 0
C2_Witness ==
    /\ pc = "done"
    /\ chunk_size = IntC(4)
    /\ z.dev = "cuda:0"
    /\ t.dev = "cpu"
    /\ n_templ = 2
    /\ embed_angles
    /\ att_calls[1].chunk = IntC(1024)
    /\ batch[1] # batch[2]

\* chunk_size is an integer with 1 <= chunk_size <= 4
C3_SmallChunk == chunk_size.kind \in {"int", "bool"} /\ chunk_size.v \in 1..4
(* C3 as stated: the buffer is in host (CPU) memory exactly when           *)
(* chunk_size is an integer with 1 <= chunk_size <= 4, otherwise on the    *)
(* device of z; it has T slices and the dtype of z.                        *)
C3_HostExactlyWhenSmallChunk ==
    pc # "entry" =>
        /\ (t.dev = "cpu") <=> C3_SmallChunk
        /\ ~C3_SmallChunk => t.dev = z.dev
        /\ Len(t.slices) = Len(batch)
        /\ t.dtype = z.dtype
(* C3 amended: the buffer is in host memory whenever chunk_size is an      *)
(* integer with 1 <= chunk_size <= 4 and on the device of z for every      *)
(* other chunk_size (which is host memory too when z is on the CPU); it    *)
(* has T slices and the dtype of z.                                        *)
C3_BufferPlacement ==
    pc # "entry" =>
        /\ C3_SmallChunk => t.dev = "cpu"
        /\ ~C3_SmallChunk => t.dev = z.dev
        /\ Len(t.slices) = Len(batch)
        /\ t.dtype = z.dtype
        /\ t.channels = TemplateChannels
C3_Witness ==
    /\ pc = "loop"
    /\ chunk_size = IntC(4)
    /\ z = Tensor(1, "cuda:0", "bfloat16")
    /\ t.dev = "cpu"
    /\ t.dtype = "bfloat16"
    /\ Len(t.slices) = 2

\* chunk_size is a positive integer
C4_ChunkingActive == chunk_size.kind \in {"int", "bool"} /\ chunk_size.v >= 1
(* C4 as stated: pointwise attention gets chunk_size x 256 when chunk_size *)
(* is a positive integer and None otherwise, so 0, a negative number or a  *)
(* non-integer makes it run unchunked.                                     *)
C4_UnsupportedMeansUnchunked ==
    \A n \in DOMAIN att_calls :
        IF C4_ChunkingActive
        THEN att_calls[n].chunk = IntC(256 * chunk_size.v)
        ELSE att_calls[n].chunk = NoneC
(* C4 amended: pointwise attention gets None only when chunk_size is None; *)
(* every other chunk_size is multiplied by 256 and passed on, so 0 passes  *)
(* 0, a negative number its negative multiple and a float its product.     *)
C4_ScaledUnlessNone ==
    \A n \in DOMAIN att_calls :
        /\ chunk_size.kind = "none" => att_calls[n].chunk.kind = "none"
        /\ chunk_size.kind # "none" =>
              /\ att_calls[n].chunk.kind # "none"
              /\ Twice(att_calls[n].chunk) = 256 * Twice(chunk_size)
              /\ (att_calls[n].chunk.kind = "float") <=> (chunk_size.kind = "float")
C4_Witness ==
    /\ Len(att_calls) = 1
    /\ chunk_size = IntC(0)
    /\ att_calls[1].chunk = IntC(0)

(* C5: the returned mapping holds template_single_embedding iff            *)
(* embed_angles; when present (T >= 1) it is the concatenation of the T    *)
(* angle embeddings in template order, of length T; with embed_angles off  *)
(* the angle embedder is never invoked and the call still succeeds.        *)
C5_AngleOutput ==
    /\ pc = "done" =>
          /\ (Key \in DOMAIN ret) <=> embed_angles
          /\ (Key \in DOMAIN ret /\ Len(batch) >= 1) =>
                (ret[Key] = ExpectedAngle /\ Len(ret[Key]) = Len(batch))
    /\ ~embed_angles => (angle_calls = <<>> /\ pc # "raised")
\* C5 with the call allowed to fail on an empty template axis: holds
C5_AngleOutputNonEmpty ==
    /\ pc = "done" =>
          /\ (Key \in DOMAIN ret) <=> embed_angles
          /\ Key \in DOMAIN ret =>
                (ret[Key] = ExpectedAngle /\ Len(ret[Key]) = Len(batch))
    /\ ~embed_angles => angle_calls = <<>>
    /\ embed_angles => Len(angle_calls) \in {i, i + 1}
    /\ pc = "raised" => (Len(batch) = 0 /\ exc = "UnboundLocalError")

\* the pair features of a pair-stack call, and the arguments both modes share
C9_Unwrapped(call) == IF call.wrapped THEN call.feat[1] ELSE call.feat
C9_SameCall(call) ==
    /\ C9_Unwrapped(call) = ExpectedFeat(1)
    /\ call.mask = ExpectedMask
    /\ call.chunk = chunk_size
    /\ call.mask_trans = mask_trans
(* C9 as stated: for one template both modes hand the pair stack the same  *)
(* features, wrapped in a single-element sequence, the same mask,          *)
(* chunk_size and flag, store the same slice and return the same outputs.  *)
C9_BothModesWrapped ==
    (Len(batch) = 1 /\ Len(pair_stack_calls) >= 1) =>
        /\ C9_SameCall(pair_stack_calls[1])
        /\ pair_stack_calls[1].wrapped
        /\ t.slices[1] = ExpectedSlice(1)
        /\ pc = "done" => OutputsAsExpected
(* C9 amended: for one template both modes hand the pair stack the same    *)
(* features, mask, chunk_size and flag, store the same slice and return    *)
(* the same outputs; only the in-place mode wraps the features in a        *)
(* single-element sequence (and takes element 0 of the result), the        *)
(* standard mode hands over the bare tensor.                               *)
C9_ModesAgree ==
    (Len(batch) = 1 /\ Len(pair_stack_calls) >= 1) =>
        /\ Len(pair_stack_calls) = 1
        /\ C9_SameCall(pair_stack_calls[1])
        /\ pair_stack_calls[1].wrapped = inplace
        /\ t.slices[1] = ExpectedSlice(1)
        /\ pc = "done" => OutputsAsExpected
C9_Witness ==
    /\ pc = "done"
    /\ Len(batch) = 1
    /\ inplace
    /\ ~mask_trans
    /\ pair_stack_calls[1].mode = "inplace"
    /\ t.slices[1].init

\* after i iterations exactly slices 1..i are written, each with its result
C10_LoopOrder ==
    /\ i \in 0..n_templ
    /\ \A j \in DOMAIN t.slices :
          t.slices[j] = IF j <= i THEN ExpectedSlice(j) ELSE Uninit
    /\ Len(pair_stack_calls) = i
\* at most one attention call, made on the complete buffer
C10_AttentionAfterLoop ==
    /\ Len(att_calls) <= 1
    /\ Len(att_calls) = 1 =>
          /\ i = Len(batch)
          /\ Len(att_calls[1].slices) = Len(batch)
          /\ \A j \in 1..Len(batch) : att_calls[1].slices[j] = ExpectedSlice(j)
(* C10: iterations run in index order and iteration i writes slice i only; *)
(* pointwise attention is invoked exactly once per call, after all T       *)
(* iterations, when every slice holds its template's pair-stack result.    *)
C10_SequentialThenAttention ==
    /\ C10_LoopOrder
    /\ C10_AttentionAfterLoop
    /\ Terminated => Len(att_calls) = 1
\* C10 with the call allowed to fail on an empty template axis: holds
C10_SequentialNonEmpty ==
    /\ C10_LoopOrder
    /\ C10_AttentionAfterLoop
    /\ pc = "done" => Len(att_calls) = 1
    /\ pc = "raised" => (Len(batch) = 0 /\ exc = "UnboundLocalError")

----------------------------------------------------------------------------
(* Claims about InputEmbedder, checked under SpecInput *)

Clamp(x, lo, hi) == IF x < lo THEN lo ELSE IF x > hi THEN hi ELSE x

(* C6: relpos is translation-invariant: relpos(ri + c) equals relpos(ri)   *)
(* elementwise for every residue-index sequence ri and integer c.          *)
C6_TranslationInvariant ==
    ipc = "translated" =>
        \A a, b \in 1..Len(ri) : out_b[a][b] = out_a[a][b]
C6_Witness ==
    /\ ipc = "translated"
    /\ arg_c = -2
    /\ Len(ri) = 3
    /\ ri[1] - ri[3] > relpos_k
    /\ out_a[1][3] # out_a[3][1]
    /\ out_a[1][2] # out_a[1][3]

(* C7: for every pair (i,j) the one-hot vector relpos builds has width     *)
(* 2k+1 and exactly one entry set, at the index (from 0) of the largest    *)
(* boundary not exceeding d = ri[i] - ri[j], i.e. at clamp(d, -k, k) + k.  *)
C7_OneHotBucket ==
    ipc = "relpos" =>
        \A a, b \in 1..Len(ri) :
            LET oh == oh_out[a][b]
                d == ri[a] - ri[b]
            IN  /\ Len(oh) = 2 * relpos_k + 1
                /\ Cardinality({m \in 1..Len(oh) : oh[m] = 1}) = 1
                /\ \A m \in 1..Len(oh) : oh[m] \in {0, 1}
                /\ oh[Clamp(d, -relpos_k, relpos_k) + relpos_k + 1] = 1
C7_Witness ==
    /\ ipc = "relpos"
    /\ relpos_k = 1
    /\ Len(ri) = 3
    /\ ri[1] - ri[2] = 2
    /\ oh_out[1][2] = <<0, 0, 1>>
    /\ oh_out[2][1] = <<1, 0, 0>>
    /\ oh_out[3][3] = <<0, 1, 0>>

====
